---- MODULE Spec2Model ----
(***************************************************************************)
(* Vehicle parking application (src/app.py): the ParkingLot, ParkingSpot   *)
(* and Reservation tables and the request handlers that change them        *)
(* (add_parking_lot, edit_parking_lot, delete_parking_lot, book_spot,      *)
(* release_spot).                                                          *)
(*                                                                         *)
(* Store semantics that the handlers rely on and that are modelled here:   *)
(*  - Integer primary keys are SQLite rowids without AUTOINCREMENT: a new  *)
(*    row gets max(existing id) + 1, or 1 in an empty table.               *)
(*  - Query.first() without order_by is a table scan in rowid order: the   *)
(*    matching row with the smallest id.                                   *)
(*  - ParkingSpot.reservations has no delete cascade: deleting a spot      *)
(*    makes the unit of work set spot_id of its reservations to NULL,      *)
(*    Reservation.spot_id is nullable=False, so the flush raises           *)
(*    IntegrityError and the whole transaction is rolled back.             *)
(*  - An exception in a handler rolls the session back: nothing is stored. *)
(***************************************************************************)
EXTENDS Integers, FiniteSets, Sequences, TLC

\* ------------------------------------------------------------------ bounds
NumUsers == 2
MaxLots == 2
MaxCap == 3
MaxRes == 2
MaxSpotId == 4
NumSlots == 2

Users == 1..NumUsers
LotIds == 1..MaxLots
Caps == 0..MaxCap
Slots == 1..NumSlots
\* request.form['price'] values used by the sequential specification
Prices == {10}
\* request.form['price'] values of the timed specification: float() accepts
\* any number, a negative one included
AnyPrices == {-10, 10}
\* the instants, in seconds, at which a request can arrive
Times == {0, 1, 5400}
\* request.form['max_spots'] values of the timed specification
TimedCaps == 1..2

\* ------------------------------------------------------------------- state
VARIABLES
    parking_lot,    \* id -> [price, maximum_number_of_spots]
    parking_spot,   \* id -> [lot_id, status, spot_number]
    reservation,    \* id -> [spot_id, user_id, parking_timestamp,
                    \*        leaving_timestamp, parking_cost, is_active]
    now,            \* datetime.utcnow(), in seconds
    reqs,           \* slot -> book_spot request in flight
    last,           \* the last completed request and its outcome
    before          \* the tables as they were when that request started

vars == <<parking_lot, parking_spot, reservation, now, reqs, last, before>>

\* a nullable column: <<>> is NULL, <<v>> is the value v
Null == <<>>
Some(v) == <<v>>

Max(S) == CHOOSE x \in S : \A y \in S : y <= x
Min(S) == CHOOSE x \in S : \A y \in S : x <= y

\* the rowid SQLite gives to the next inserted row of a table
NextId(table) == IF DOMAIN table = {} THEN 1 ELSE Max(DOMAIN table) + 1

Snapshot == [parking_lot |-> parking_lot, parking_spot |-> parking_spot,
             reservation |-> reservation]

Idle == [pc |-> "idle", user_id |-> 0, lot_id |-> 0, spot_id |-> 0]

Done(op, user_id, lot_id, max_spots, result) ==
    [op |-> op, user_id |-> user_id, lot_id |-> lot_id,
     max_spots |-> max_spots, result |-> result]

\* ----------------------------------------------------------------- queries
\* ParkingSpot.query.filter_by(lot_id=lot_id)
SpotsOfLot(spots, lot_id) == {s \in DOMAIN spots : spots[s].lot_id = lot_id}

\* ParkingSpot.query.filter_by(lot_id=lot_id, status=status)
SpotsWithStatus(spots, lot_id, status) ==
    {s \in SpotsOfLot(spots, lot_id) : spots[s].status = status}

\* the same query without the is_active filter
ActiveOfUser_any(res, user_id) == {r \in DOMAIN res : res[r].user_id = user_id}

\* Reservation.query.filter_by(user_id=user_id, is_active=True)
ActiveOfUser(res, user_id) ==
    {r \in DOMAIN res : res[r].user_id = user_id /\ res[r].is_active}

\* the rows behind ParkingSpot.reservations
ReservationsOfSpot(res, spot_id) == {r \in DOMAIN res : res[r].spot_id = spot_id}

\* first() over a scan in descending rowid order
First_descending(rows) == IF rows = {} THEN 0 ELSE Max(rows)

\* Query.first(): the matching row with the smallest rowid, 0 for None
First(rows) == IF rows = {} THEN 0 ELSE Min(rows)

\* ----------------------------------------------------------------- helpers
\* create_parking_spots / the loop of edit_parking_lot: spots numbered
\* from..to, inserted in that order, status default 'A'
\* the largest rowid after inserting count more rows
LastId(table, count) ==
    (IF DOMAIN table = {} THEN 0 ELSE Max(DOMAIN table)) + (IF count > 0 THEN count ELSE 0)

\* the loop written as range(from, to): the last spot is not created
AddSpots_short(spots, lot_id, from, to) ==
    LET base == IF DOMAIN spots = {} THEN 0 ELSE Max(DOMAIN spots)
        new == {base + k : k \in 1..(to - from)}
    IN  [s \in DOMAIN spots \cup new |->
            IF s \in DOMAIN spots THEN spots[s]
            ELSE [lot_id |-> lot_id, status |-> "A",
                  spot_number |-> from + (s - base) - 1]]

\* a resize that rewrites the lot's existing rows with the default status
AddSpots_reset(spots, lot_id, from, to) ==
    LET base == IF DOMAIN spots = {} THEN 0 ELSE Max(DOMAIN spots)
        new == {base + k : k \in 1..(to - from + 1)}
    IN  [s \in DOMAIN spots \cup new |->
            IF s \in DOMAIN spots
            THEN IF spots[s].lot_id = lot_id THEN [spots[s] EXCEPT !.status = "A"]
                 ELSE spots[s]
            ELSE [lot_id |-> lot_id, status |-> "A",
                  spot_number |-> from + (s - base) - 1]]

AddSpots(spots, lot_id, from, to) ==
    LET base == IF DOMAIN spots = {} THEN 0 ELSE Max(DOMAIN spots)
        new == {base + k : k \in 1..(to - from + 1)}
    IN  [s \in DOMAIN spots \cup new |->
            IF s \in DOMAIN spots THEN spots[s]
            ELSE [lot_id |-> lot_id, status |-> "A",
                  spot_number |-> from + (s - base) - 1]]

create_parking_spots(spots, lot_id, max_spots) == AddSpots(spots, lot_id, 1, max_spots)

\* round(x, 2) of x = n / d, in hundredths, ties to even
Round2(n, d) ==
    LET q == n \div d
        r == n % d
    IN  IF 2 * r < d THEN q
        ELSE IF 2 * r > d THEN q + 1
        ELSE IF q % 2 = 0 THEN q ELSE q + 1

\* calculate_parking_cost that takes the duration in minutes for hours
calculate_parking_cost_minutes(r, spots, lots) ==
    IF r.leaving_timestamp # Null
    THEN LET duration_seconds == r.leaving_timestamp[1] - r.parking_timestamp
             lot_price == lots[spots[r.spot_id].lot_id].price
         IN  Round2(duration_seconds * lot_price * 100, 60)
    ELSE 0

\* calculate_parking_cost, in hundredths; a datetime is always truthy, so
\* the "return 0" branch is taken only for a NULL leaving_timestamp
calculate_parking_cost(r, spots, lots) ==
    IF r.leaving_timestamp # Null
    THEN LET duration_seconds == r.leaving_timestamp[1] - r.parking_timestamp
             lot_price == lots[spots[r.spot_id].lot_id].price
         IN  Round2(duration_seconds * lot_price * 100, 3600)
    ELSE 0

\* db.session.delete(spot) for every spot of the set, at flush: fails when a
\* deleted spot has reservations (their spot_id cannot be set to NULL)
DeleteRaises(res, spot_ids) == \E s \in spot_ids : ReservationsOfSpot(res, s) # {}

Remove(table, ids) == [k \in DOMAIN table \ ids |-> table[k]]

\* -------------------------------------------------------------------- Init
Init ==
    /\ parking_lot = <<>>
    /\ parking_spot = <<>>
    /\ reservation = <<>>
    /\ now = 0
    /\ reqs = [s \in Slots |-> Idle]
    /\ last = Done("init", 0, 0, 0, "None")
    /\ before = [parking_lot |-> <<>>, parking_spot |-> <<>>, reservation |-> <<>>]

\* ----------------------------------------------------------- admin actions
add_parking_lot(price, max_spots) ==
    /\ Cardinality(DOMAIN parking_lot) < MaxLots
    /\ LastId(parking_spot, max_spots) <= MaxSpotId
    /\ LET id == NextId(parking_lot)
       IN  /\ parking_lot' = [l \in DOMAIN parking_lot \cup {id} |->
                                IF l = id
                                THEN [price |-> price, maximum_number_of_spots |-> max_spots]
                                ELSE parking_lot[l]]
           /\ parking_spot' = create_parking_spots(parking_spot, id, max_spots)
           /\ last' = Done("add_parking_lot", 0, id, max_spots, "Created")
    /\ before' = Snapshot
    /\ UNCHANGED <<reservation, now, reqs>>

\* edit_parking_lot that takes the lot's declared capacity for the row count
current_spots_declared(lots, spots, lot_id) == lots[lot_id].maximum_number_of_spots

\* edit_parking_lot line 239: the number of spot rows of the lot (the lot's
\* declared maximum_number_of_spots is not consulted)
current_spots(lots, spots, lot_id) == Cardinality(SpotsOfLot(spots, lot_id))

edit_parking_lot(lot_id, price, new_max_spots) ==
    /\ before' = Snapshot
    /\ UNCHANGED <<reservation, now, reqs>>
    /\ IF lot_id \notin DOMAIN parking_lot
       THEN \* get_or_404
            /\ last' = Done("edit_parking_lot", 0, lot_id, new_max_spots, "NotFound")
            /\ UNCHANGED <<parking_lot, parking_spot>>
       ELSE LET current == current_spots(parking_lot, parking_spot, lot_id)
                spots_to_remove ==
                    {s \in SpotsWithStatus(parking_spot, lot_id, "A") :
                        parking_spot[s].spot_number > new_max_spots}
            IN  /\ LastId(parking_spot, new_max_spots - current) <= MaxSpotId
                /\ IF new_max_spots < current /\ DeleteRaises(reservation, spots_to_remove)
                   THEN \* IntegrityError at commit, the session is rolled back
                        /\ last' = Done("edit_parking_lot", 0, lot_id, new_max_spots, "IntegrityError")
                        /\ UNCHANGED <<parking_lot, parking_spot>>
                   ELSE /\ parking_spot' =
                               IF new_max_spots > current
                               THEN AddSpots(parking_spot, lot_id, current + 1, new_max_spots)
                               ELSE IF new_max_spots < current
                               THEN Remove(parking_spot, spots_to_remove)
                               ELSE parking_spot
                        /\ parking_lot' = [parking_lot EXCEPT ![lot_id] =
                               [price |-> price, maximum_number_of_spots |-> new_max_spots]]
                        /\ last' = Done("edit_parking_lot", 0, lot_id, new_max_spots, "Updated")

\* delete_parking_lot whose status filter matches no row
occupied_spots_unmatched(spots, lot_id) == 0

\* delete_parking_lot line 272
occupied_spots(spots, lot_id) == Cardinality(SpotsWithStatus(spots, lot_id, "O"))

\* delete_parking_lot without the occupancy check, deleting the rows with
\* bulk DELETE statements (no unit-of-work handling of the reservations)
delete_parking_lot_bulk(lot_id) ==
    /\ before' = Snapshot
    /\ UNCHANGED <<reservation, now, reqs>>
    /\ IF lot_id \notin DOMAIN parking_lot
       THEN /\ last' = Done("delete_parking_lot", 0, lot_id, 0, "NotFound")
            /\ UNCHANGED <<parking_lot, parking_spot>>
       ELSE /\ parking_lot' = Remove(parking_lot, {lot_id})
            /\ parking_spot' = Remove(parking_spot, SpotsOfLot(parking_spot, lot_id))
            /\ last' = Done("delete_parking_lot", 0, lot_id, 0, "Deleted")

delete_parking_lot(lot_id) ==
    /\ before' = Snapshot
    /\ UNCHANGED <<reservation, now, reqs>>
    /\ IF lot_id \notin DOMAIN parking_lot
       THEN \* get_or_404
            /\ last' = Done("delete_parking_lot", 0, lot_id, 0, "NotFound")
            /\ UNCHANGED <<parking_lot, parking_spot>>
       ELSE IF occupied_spots(parking_spot, lot_id) > 0
                THEN /\ last' = Done("delete_parking_lot", 0, lot_id, 0, "LotOccupied")
                     /\ UNCHANGED <<parking_lot, parking_spot>>
                ELSE IF DeleteRaises(reservation, SpotsOfLot(parking_spot, lot_id))
                THEN \* the cascade deletes the spots: IntegrityError, rollback
                     /\ last' = Done("delete_parking_lot", 0, lot_id, 0, "IntegrityError")
                     /\ UNCHANGED <<parking_lot, parking_spot>>
                ELSE /\ parking_lot' = Remove(parking_lot, {lot_id})
                     /\ parking_spot' = Remove(parking_spot, SpotsOfLot(parking_spot, lot_id))
                     /\ last' = Done("delete_parking_lot", 0, lot_id, 0, "Deleted")

\* ------------------------------------------------------------ user actions
\* book_spot without the check for an active reservation
existing_reservation_unchecked(res, user_id) == 0

\* book_spot line 363: the user's active reservation, 0 for None
existing_reservation(res, user_id) == First(ActiveOfUser(res, user_id))

\* book_spot that does not filter on status
available_spot_any_status(spots, lot_id) == First(SpotsOfLot(spots, lot_id))

\* book_spot line 369: the first available spot of the lot, 0 for None
available_spot(spots, lot_id) == First(SpotsWithStatus(spots, lot_id, "A"))

\* book_spot that reopens the user's earlier Reservation row instead of
\* inserting a new one
AddReservation_reopen(res, spot_id, user_id, t) ==
    LET mine == {r \in DOMAIN res : res[r].user_id = user_id}
        id == IF mine = {} THEN NextId(res) ELSE Min(mine)
    IN  [r \in DOMAIN res \cup {id} |->
            IF r = id
            THEN [spot_id |-> spot_id, user_id |-> user_id, parking_timestamp |-> t,
                  leaving_timestamp |-> Null, parking_cost |-> Null, is_active |-> TRUE]
            ELSE res[r]]

\* book_spot lines 375-379: the new Reservation row
AddReservation(res, spot_id, user_id, t) ==
    LET id == NextId(res)
    IN  [r \in DOMAIN res \cup {id} |->
            IF r = id
            THEN [spot_id |-> spot_id, user_id |-> user_id, parking_timestamp |-> t,
                  leaving_timestamp |-> Null, parking_cost |-> Null, is_active |-> TRUE]
            ELSE res[r]]

\* book_spot line 382
MarkOccupied(spots, spot_id) == [spots EXCEPT ![spot_id].status = "O"]

book_spot(user_id, lot_id) ==
    /\ before' = Snapshot
    /\ UNCHANGED <<parking_lot, now, reqs>>
    /\ IF existing_reservation(reservation, user_id) # 0
       THEN /\ last' = Done("book_spot", user_id, lot_id, 0, "AlreadyBooked")
            /\ UNCHANGED <<parking_spot, reservation>>
       ELSE LET spot == available_spot(parking_spot, lot_id)
            IN  IF spot = 0
                THEN /\ last' = Done("book_spot", user_id, lot_id, 0, "NoAvailableSpot")
                     /\ UNCHANGED <<parking_spot, reservation>>
                ELSE /\ Cardinality(DOMAIN reservation) < MaxRes
                     /\ reservation' = AddReservation(reservation, spot, user_id, now)
                     /\ parking_spot' = MarkOccupied(parking_spot, spot)
                     /\ last' = Done("book_spot", user_id, lot_id, 0, "Booked")

\* release_spot lines 404-406
CloseReservation(res, id, spots, lots, t) ==
    LET left == [res[id] EXCEPT !.leaving_timestamp = Some(t)]
    IN  [res EXCEPT ![id] =
            [left EXCEPT !.parking_cost = Some(calculate_parking_cost(left, spots, lots)),
                         !.is_active = FALSE]]

\* release_spot that frees every spot of the released spot's lot
MarkAvailable_lot(spots, spot_id) ==
    [s \in DOMAIN spots |->
        IF spots[s].lot_id = spots[spot_id].lot_id THEN [spots[s] EXCEPT !.status = "A"]
        ELSE spots[s]]

\* release_spot that leaves the spot's status alone
MarkAvailable_skipped(spots, spot_id) == spots

\* release_spot line 410
MarkAvailable(spots, spot_id) == [spots EXCEPT ![spot_id].status = "A"]

release_spot(user_id) ==
    /\ before' = Snapshot
    /\ UNCHANGED <<parking_lot, now, reqs>>
    /\ LET r == existing_reservation(reservation, user_id)
       IN  IF r = 0
           THEN /\ last' = Done("release_spot", user_id, 0, 0, "NoActiveReservation")
                /\ UNCHANGED <<parking_spot, reservation>>
           ELSE IF \/ reservation[r].spot_id \notin DOMAIN parking_spot
                   \/ parking_spot[reservation[r].spot_id].lot_id \notin DOMAIN parking_lot
           THEN \* reservation.spot or spot is None: AttributeError, rollback
                /\ last' = Done("release_spot", user_id, 0, 0, "AttributeError")
                /\ UNCHANGED <<parking_spot, reservation>>
           ELSE /\ reservation' = CloseReservation(reservation, r, parking_spot, parking_lot, now)
                /\ parking_spot' = MarkAvailable(parking_spot, reservation[r].spot_id)
                /\ last' = Done("release_spot", user_id, 0, 0, "Released")

\* ------------------------------------------------------------------- Spec
\* requests are served one at a time
Next ==
    \/ \E n \in Caps, p \in Prices : add_parking_lot(p, n)
    \/ \E l \in LotIds, n \in Caps, p \in Prices : edit_parking_lot(l, p, n)
    \/ \E l \in LotIds : delete_parking_lot(l)
    \/ \E u \in Users, l \in LotIds : book_spot(u, l)
    \/ \E u \in Users : release_spot(u)

Spec == Init /\ [][Next]_vars

\* ------------------------------------------- book_spot, one statement at a time
\* lines 359-366: the request arrives and checks for an active reservation
book_check(slot, user_id, lot_id) ==
    /\ reqs[slot].pc = "idle"
    /\ IF existing_reservation(reservation, user_id) # 0
       THEN /\ last' = Done("book_spot", user_id, lot_id, 0, "AlreadyBooked")
            /\ UNCHANGED reqs
       ELSE /\ reqs' = [reqs EXCEPT ![slot] =
                    [pc |-> "find", user_id |-> user_id, lot_id |-> lot_id, spot_id |-> 0]]
            /\ UNCHANGED last
    /\ UNCHANGED <<parking_lot, parking_spot, reservation, now, before>>

\* lines 368-372: it reads the first available spot of the lot
book_find(slot) ==
    /\ reqs[slot].pc = "find"
    /\ LET spot == available_spot(parking_spot, reqs[slot].lot_id)
       IN  IF spot = 0
           THEN /\ last' = Done("book_spot", reqs[slot].user_id, reqs[slot].lot_id, 0,
                                "NoAvailableSpot")
                /\ reqs' = [reqs EXCEPT ![slot] = Idle]
           ELSE /\ reqs' = [reqs EXCEPT ![slot].pc = "commit", ![slot].spot_id = spot]
                /\ UNCHANGED last
    /\ UNCHANGED <<parking_lot, parking_spot, reservation, now, before>>

\* lines 374-383: it inserts the reservation and updates the spot it read;
\* UPDATE ... WHERE id = spot_id matches the row whatever its status is now,
\* and fails (StaleDataError, rollback) only when the row is gone
book_commit(slot) ==
    /\ reqs[slot].pc = "commit"
    /\ reqs' = [reqs EXCEPT ![slot] = Idle]
    /\ IF reqs[slot].spot_id \notin DOMAIN parking_spot
       THEN /\ last' = Done("book_spot", reqs[slot].user_id, reqs[slot].lot_id, 0,
                            "StaleDataError")
            /\ UNCHANGED <<parking_spot, reservation>>
       ELSE /\ Cardinality(DOMAIN reservation) < MaxRes
            /\ reservation' = AddReservation(reservation, reqs[slot].spot_id,
                                             reqs[slot].user_id, now)
            /\ parking_spot' = MarkOccupied(parking_spot, reqs[slot].spot_id)
            /\ last' = Done("book_spot", reqs[slot].user_id, reqs[slot].lot_id, 0, "Booked")
    /\ UNCHANGED <<parking_lot, now, before>>

\* requests of different clients interleave statement by statement
NextConc ==
    \/ \E n \in Caps, p \in Prices : add_parking_lot(p, n)
    \/ \E s \in Slots, u \in Users, l \in LotIds : book_check(s, u, l)
    \/ \E s \in Slots : book_find(s)
    \/ \E s \in Slots : book_commit(s)
    \/ \E u \in Users : release_spot(u)

SpecConc == Init /\ [][NextConc]_vars

\* ----------------------------------------------------------------- the clock
\* time passes between two requests: datetime.utcnow() of the next request
tick(t) ==
    /\ now < t
    /\ now' = t
    /\ UNCHANGED <<parking_lot, parking_spot, reservation, reqs, last, before>>

\* requests served one at a time, at different instants and with any price
NextTime ==
    \/ \E t \in Times : tick(t)
    \/ \E n \in TimedCaps, p \in AnyPrices : add_parking_lot(p, n)
    \/ \E l \in LotIds, n \in TimedCaps, p \in AnyPrices : edit_parking_lot(l, p, n)
    \/ \E l \in LotIds : delete_parking_lot(l)
    \/ \E u \in Users, l \in LotIds : book_spot(u, l)
    \/ \E u \in Users : release_spot(u)

SpecTime == Init /\ [][NextTime]_vars

\* ------------------------------------------------------------- dashboards
\* admin_dashboard lines 170-171: available_count of a lot
admin_available_count(lots, spots, lot_id) ==
    lots[lot_id].maximum_number_of_spots - Cardinality(SpotsWithStatus(spots, lot_id, "O"))

\* user_dashboard line 341: available_spots of a lot
user_available_spots(spots, lot_id) == Cardinality(SpotsWithStatus(spots, lot_id, "A"))

\* api_lot_availability line 424: available_spots of a lot
api_available_spots(spots, lot_id) == Cardinality(SpotsWithStatus(spots, lot_id, "A"))

TypeOK ==
    /\ \A l \in DOMAIN parking_lot : parking_lot[l].maximum_number_of_spots \in Caps
    /\ \A s \in DOMAIN parking_spot : parking_spot[s].status \in {"A", "O"}

\* ================================================================== claims
ActiveOnSpot(res, spot_id) == {r \in DOMAIN res : res[r].spot_id = spot_id /\ res[r].is_active}
ActiveFor(res, user_id) == {r \in DOMAIN res : res[r].user_id = user_id /\ res[r].is_active}

\* C1: in every state reached by requests served one at a time, each user
\* has at most one Reservation with is_active = true.
C1_OneActivePerUser ==
    \A u \in Users : Cardinality(ActiveFor(reservation, u)) <= 1

\* a user holding an active reservation has just tried to book again
C1_Witness ==
    /\ last.op = "book_spot" /\ last.result = "AlreadyBooked"
    /\ Cardinality(ActiveFor(reservation, last.user_id)) = 1

\* C2: in every state reached by requests served one at a time, an existing
\* spot is Occupied iff exactly one active Reservation has its spot_id, and
\* no spot has more than one active Reservation.
C2_OccupiedIffOneActive ==
    \A s \in DOMAIN parking_spot :
        /\ Cardinality(ActiveOnSpot(reservation, s)) <= 1
        /\ parking_spot[s].status = "O" <=> Cardinality(ActiveOnSpot(reservation, s)) = 1

\* after a release one spot is Available again with a closed reservation
\* while another spot is still Occupied
C2_Witness ==
    /\ last.op = "release_spot" /\ last.result = "Released"
    /\ \E s, t \in DOMAIN parking_spot :
        /\ parking_spot[s].status = "O"
        /\ parking_spot[t].status = "A" /\ ReservationsOfSpot(reservation, t) # {}

\* C3: in every state reached by requests served one at a time, no two
\* spots of one lot have the same spot_number, also after a lot is resized
\* upward following a shrink that an Occupied spot blocked.
C3_SpotNumberUnique ==
    \A s, t \in DOMAIN parking_spot :
        (s # t /\ parking_spot[s].lot_id = parking_spot[t].lot_id)
            => parking_spot[s].spot_number # parking_spot[t].spot_number

\* the last request grew a lot in which a blocked shrink had left an
\* Occupied spot numbered above the declared capacity
C3_Witness ==
    /\ last.op = "edit_parking_lot" /\ last.result = "Updated"
    /\ last.lot_id \in DOMAIN before.parking_lot
    /\ LET rows == SpotsOfLot(before.parking_spot, last.lot_id)
           declared == before.parking_lot[last.lot_id].maximum_number_of_spots
       IN  /\ \E s \in rows : /\ before.parking_spot[s].status = "O"
                              /\ before.parking_spot[s].spot_number > declared
           /\ declared < Cardinality(rows)
           /\ last.max_spots > Cardinality(rows)
           /\ Cardinality(SpotsOfLot(parking_spot, last.lot_id)) = last.max_spots

\* C4: when book requests interleave statement by statement, no state has
\* two active Reservations with the same spot_id.
C4_NoDoubleBooking ==
    \A r1, r2 \in DOMAIN reservation :
        (r1 # r2 /\ reservation[r1].is_active /\ reservation[r2].is_active)
            => reservation[r1].spot_id # reservation[r2].spot_id

\* the Reservation a successful book_spot has just inserted
Booked == last.op = "book_spot" /\ last.result = "Booked"
NewReservation == reservation[Max(DOMAIN reservation)]
AvailableBefore(lot_id) == SpotsWithStatus(before.parking_spot, lot_id, "A")

\* C5: a successful book(user, lot) reserves, among the spots of that lot
\* that were Available, the one with the smallest spot_number.
C5_SmallestSpotNumber ==
    Booked =>
        /\ NewReservation.spot_id \in AvailableBefore(last.lot_id)
        /\ \A t \in AvailableBefore(last.lot_id) :
              before.parking_spot[NewReservation.spot_id].spot_number
                  <= before.parking_spot[t].spot_number

\* a booking chose among several Available spots of a lot that a resize had
\* grown after another lot was created (its spot ids are not contiguous)
C5_Witness ==
    /\ Booked
    /\ Cardinality(AvailableBefore(last.lot_id)) >= 2
    /\ \E s, t \in SpotsOfLot(before.parking_spot, last.lot_id) :
          \E x \in DOMAIN before.parking_spot :
              s < x /\ x < t /\ before.parking_spot[x].lot_id # last.lot_id

\* the last request was resize(lot, new_capacity) on an existing lot
Resized == last.op = "edit_parking_lot" /\ last.lot_id \in DOMAIN before.parking_lot
RowsBefore(lot_id) == SpotsOfLot(before.parking_spot, lot_id)
RemovalSet(lot_id, new_capacity) ==
    {s \in SpotsWithStatus(before.parking_spot, lot_id, "A") :
        before.parking_spot[s].spot_number > new_capacity}

\* C6: resize(lot, new_capacity) below the lot's number of spot rows deletes
\* exactly the Available spots of the lot numbered above new_capacity,
\* keeps every other spot and sets the declared capacity to new_capacity.
C6_ShrinkDeletesAvailableAbove ==
    (Resized /\ last.max_spots < Cardinality(RowsBefore(last.lot_id))) =>
        /\ parking_spot = Remove(before.parking_spot, RemovalSet(last.lot_id, last.max_spots))
        /\ last.lot_id \in DOMAIN parking_lot
        /\ parking_lot[last.lot_id].maximum_number_of_spots = last.max_spots

\* the last request was delete_lot on an existing lot
DeleteCalled == last.op = "delete_parking_lot" /\ last.lot_id \in DOMAIN before.parking_lot
OccupiedBefore(lot_id) == SpotsWithStatus(before.parking_spot, lot_id, "O")
TablesUnchanged ==
    /\ parking_lot = before.parking_lot
    /\ parking_spot = before.parking_spot
    /\ reservation = before.reservation

\* C7: delete_lot on a lot with an Occupied spot fails with LotOccupied and
\* leaves the lot, every spot and every Reservation as they were.
C7_DeleteOccupiedRefused ==
    (DeleteCalled /\ OccupiedBefore(last.lot_id) # {}) =>
        /\ last.result = "LotOccupied"
        /\ TablesUnchanged

\* delete_lot was refused on a lot that has an Occupied and an Available spot
C7_Witness ==
    /\ DeleteCalled /\ last.result = "LotOccupied"
    /\ OccupiedBefore(last.lot_id) # {}
    /\ AvailableBefore(last.lot_id) # {}

\* C8: delete_lot on an existing lot without Occupied spots succeeds, also
\* when its spots have closed Reservations: the lot and its spots are gone
\* and every Reservation is kept unchanged.
C8_DeleteFreeLotSucceeds ==
    (DeleteCalled /\ OccupiedBefore(last.lot_id) = {}) =>
        /\ last.result = "Deleted"
        /\ last.lot_id \notin DOMAIN parking_lot
        /\ parking_spot = Remove(before.parking_spot, RowsBefore(last.lot_id))
        /\ reservation = before.reservation

\* the last request was book(user, lot) or release(user)
BookCalled == last.op = "book_spot"
ReleaseCalled == last.op = "release_spot"

\* C9: book(user, lot) by a user without active reservation on a lot with
\* zero Available spots fails with NoAvailableSpot, creates no Reservation
\* and changes no spot.
C9_BookFullLotRefused ==
    (/\ BookCalled
     /\ last.lot_id \in DOMAIN before.parking_lot
     /\ ActiveFor(before.reservation, last.user_id) = {}
     /\ AvailableBefore(last.lot_id) = {}) =>
        /\ last.result = "NoAvailableSpot"
        /\ TablesUnchanged

\* a booking was refused on a lot whose spots are all Occupied
C9_Witness ==
    /\ BookCalled /\ last.result = "NoAvailableSpot"
    /\ last.lot_id \in DOMAIN before.parking_lot
    /\ OccupiedBefore(last.lot_id) # {}
    /\ AvailableBefore(last.lot_id) = {}

\* C10: release(user) by a user without active Reservation fails with
\* NoActiveReservation and changes no spot and no Reservation.
C10_ReleaseWithoutActiveRefused ==
    (ReleaseCalled /\ ActiveFor(before.reservation, last.user_id) = {}) =>
        /\ last.result = "NoActiveReservation"
        /\ TablesUnchanged

\* a release was refused for a user whose only reservation is closed, while
\* the spot of that reservation is Occupied by someone else
C10_Witness ==
    /\ ReleaseCalled /\ last.result = "NoActiveReservation"
    /\ \E r \in DOMAIN reservation :
          /\ reservation[r].user_id = last.user_id
          /\ reservation[r].spot_id \in DOMAIN parking_spot
          /\ parking_spot[reservation[r].spot_id].status = "O"

\* C11: a Reservation only moves from active to closed and only through
\* release: a closed Reservation never changes again (is_active,
\* leaving_timestamp, parking_cost), and no request removes a Reservation.
C11_ReservationOneWay ==
    [][\A r \in DOMAIN reservation :
          /\ r \in DOMAIN reservation'
          /\ ~reservation[r].is_active => reservation'[r] = reservation[r]
          /\ reservation'[r] # reservation[r] =>
                /\ ~reservation'[r].is_active
                /\ reservation'[r].spot_id = reservation[r].spot_id
                /\ reservation'[r].user_id = reservation[r].user_id
                /\ reservation'[r].parking_timestamp = reservation[r].parking_timestamp
                /\ last'.op = "release_spot" /\ last'.result = "Released"]_vars

\* a user whose Reservation was closed earlier has booked again at a later
\* instant: the closed row is still there beside the new one
C11_Witness ==
    /\ last.op = "book_spot" /\ last.result = "Booked"
    /\ \E r \in DOMAIN reservation :
          /\ reservation[r].user_id = last.user_id
          /\ ~reservation[r].is_active
          /\ reservation[r].leaving_timestamp # Null
          /\ reservation[r].leaving_timestamp[1] < now

\* the spots that were there before the last request and still are
Survivors == DOMAIN parking_spot \cap DOMAIN before.parking_spot

\* C12: a spot's status changes only through book (Available to Occupied)
\* and release (Occupied to Available); resize leaves the status of every
\* surviving spot unchanged and changes no Reservation.
C12_StatusOnlyByBookRelease ==
    /\ last.op = "edit_parking_lot" =>
          /\ reservation = before.reservation
          /\ \A s \in Survivors : parking_spot[s].status = before.parking_spot[s].status
    /\ \A s \in Survivors :
          parking_spot[s].status # before.parking_spot[s].status =>
              \/ /\ last.op = "book_spot"
                 /\ before.parking_spot[s].status = "A" /\ parking_spot[s].status = "O"
              \/ /\ last.op = "release_spot"
                 /\ before.parking_spot[s].status = "O" /\ parking_spot[s].status = "A"

\* a resize changed the number of rows of a lot that holds an Occupied spot
C12_Witness ==
    /\ last.op = "edit_parking_lot" /\ last.result = "Updated"
    /\ Cardinality(SpotsOfLot(parking_spot, last.lot_id))
          > Cardinality(SpotsOfLot(before.parking_spot, last.lot_id))
    /\ \E s \in Survivors :
          /\ before.parking_spot[s].lot_id = last.lot_id
          /\ before.parking_spot[s].status = "O"

\* the spots the last request created
Created == DOMAIN parking_spot \ DOMAIN before.parking_spot

\* C13: resize(lot, new_capacity) above the lot's number of spot rows
\* creates exactly the spots numbered row count + 1 .. new_capacity, all
\* Available, deletes no spot and sets the declared capacity.
C13_GrowCreatesNextNumbers ==
    (Resized /\ last.max_spots > Cardinality(RowsBefore(last.lot_id))) =>
        LET count == Cardinality(RowsBefore(last.lot_id))
        IN  /\ last.result = "Updated"
            /\ \A s \in DOMAIN before.parking_spot :
                  s \in DOMAIN parking_spot /\ parking_spot[s] = before.parking_spot[s]
            /\ Cardinality(Created) = last.max_spots - count
            /\ \A s \in Created :
                  /\ parking_spot[s].lot_id = last.lot_id
                  /\ parking_spot[s].status = "A"
            /\ {parking_spot[s].spot_number : s \in Created} = (count + 1)..last.max_spots
            /\ parking_lot[last.lot_id].maximum_number_of_spots = last.max_spots

\* a lot whose shrink an Occupied spot had blocked was grown by two or more
\* spots while another lot exists
C13_Witness ==
    /\ Resized /\ last.result = "Updated"
    /\ Cardinality(Created) >= 2
    /\ SpotsWithStatus(before.parking_spot, last.lot_id, "O") # {}
    /\ before.parking_lot[last.lot_id].maximum_number_of_spots
          < Cardinality(RowsBefore(last.lot_id))
    /\ Cardinality(DOMAIN parking_lot) >= 2

\* the last request was a successful release; the Reservation it closed
Released == last.op = "release_spot" /\ last.result = "Released"
Closed == CHOOSE r \in DOMAIN reservation :
              before.reservation[r].is_active /\ ~reservation[r].is_active
DurationSeconds(r) == r.leaving_timestamp[1] - r.parking_timestamp
PriceAtRelease(r) == parking_lot[parking_spot[r.spot_id].lot_id].price
Abs(x) == IF x < 0 THEN -x ELSE x

\* C14: on a successful release parking_cost is duration in seconds / 3600
\* times the price of the spot's lot at the moment of release, rounded to 2
\* decimals (the stored hundredths are within half a hundredth of the exact
\* product); price 10 and 90 minutes give 15.00.
C14_CostIsDurationTimesPrice ==
    Released =>
        LET r == reservation[Closed]
            exact100 == DurationSeconds(r) * PriceAtRelease(r) * 100
        IN  /\ r.leaving_timestamp # Null /\ r.parking_cost # Null
            /\ 2 * Abs(r.parking_cost[1] * 3600 - exact100) <= 3600
            /\ (PriceAtRelease(r) = 10 /\ DurationSeconds(r) = 5400)
                  => r.parking_cost[1] = 1500

\* a release after 90 minutes on a lot priced 10 stored the cost 15.00
C14_Witness ==
    /\ Released
    /\ PriceAtRelease(reservation[Closed]) = 10
    /\ DurationSeconds(reservation[Closed]) = 5400
    /\ reservation[Closed].parking_cost = Some(1500)

\* C15: for every lot an administrator can create or edit, a book followed
\* by a release yields a closed Reservation with leaving_timestamp >=
\* parking_timestamp and parking_cost >= 0.
C15_CostNonNegative ==
    Released =>
        /\ reservation[Closed].leaving_timestamp[1] >= reservation[Closed].parking_timestamp
        /\ reservation[Closed].parking_cost[1] >= 0

\* C16: a successful book adds exactly one Reservation (active, of that
\* user, on a spot of the requested lot), turns exactly that spot from
\* Available to Occupied and changes nothing else; a successful release
\* closes exactly the user's active Reservation, turns exactly its spot back
\* to Available and changes nothing else.
C16_BookReleaseFrame ==
    /\ Booked =>
          LET n == Max(DOMAIN reservation)
              s == reservation[n].spot_id
          IN  /\ parking_lot = before.parking_lot
              /\ n \notin DOMAIN before.reservation
              /\ DOMAIN reservation = DOMAIN before.reservation \cup {n}
              /\ \A r \in DOMAIN before.reservation : reservation[r] = before.reservation[r]
              /\ reservation[n].is_active
              /\ reservation[n].user_id = last.user_id
              /\ DOMAIN parking_spot = DOMAIN before.parking_spot
              /\ s \in DOMAIN parking_spot
              /\ before.parking_spot[s] =
                    [lot_id |-> last.lot_id, status |-> "A",
                     spot_number |-> parking_spot[s].spot_number]
              /\ parking_spot[s] = [before.parking_spot[s] EXCEPT !.status = "O"]
              /\ \A t \in DOMAIN parking_spot \ {s} : parking_spot[t] = before.parking_spot[t]
    /\ Released =>
          LET changed == {r \in DOMAIN reservation : reservation[r] # before.reservation[r]}
              mine == ActiveFor(before.reservation, last.user_id)
          IN  /\ parking_lot = before.parking_lot
              /\ DOMAIN reservation = DOMAIN before.reservation
              /\ changed = mine /\ Cardinality(mine) = 1
              /\ \A r \in mine :
                    /\ ~reservation[r].is_active
                    /\ reservation[r].spot_id = before.reservation[r].spot_id
                    /\ reservation[r].user_id = before.reservation[r].user_id
                    /\ reservation[r].parking_timestamp = before.reservation[r].parking_timestamp
                    /\ DOMAIN parking_spot = DOMAIN before.parking_spot
                    /\ before.parking_spot[reservation[r].spot_id].status = "O"
                    /\ parking_spot = [before.parking_spot EXCEPT
                                          ![reservation[r].spot_id].status = "A"]

\* a release while another user still holds a spot of the same lot
C16_Witness ==
    /\ Released
    /\ \E r \in DOMAIN reservation :
          /\ reservation[r].is_active
          /\ reservation[r].user_id # last.user_id
          /\ parking_spot[reservation[r].spot_id].lot_id
                = parking_spot[reservation[Closed].spot_id].lot_id

\* C17: when two book requests of one user interleave statement by
\* statement, the user still ends with at most one active Reservation.
C17_OneActivePerUserInterleaved ==
    \A r1, r2 \in DOMAIN reservation :
        (/\ reservation[r1].is_active /\ reservation[r2].is_active
         /\ reservation[r1].user_id = reservation[r2].user_id) => r1 = r2

\* C18: in every state reached by requests served one at a time, every
\* active Reservation references a spot that exists and whose lot exists,
\* and release never fails on a missing spot or lot.
C18_ActiveReservationHasSpot ==
    /\ \A r \in DOMAIN reservation :
          reservation[r].is_active =>
              /\ reservation[r].spot_id \in DOMAIN parking_spot
              /\ parking_spot[reservation[r].spot_id].lot_id \in DOMAIN parking_lot
    /\ last.result # "AttributeError"

\* an active Reservation is on a lot that delete_lot or a shrinking resize
\* has just been called on
C18_Witness ==
    /\ last.op \in {"delete_parking_lot", "edit_parking_lot"}
    /\ last.lot_id \in DOMAIN before.parking_lot
    /\ last.max_spots < Cardinality(RowsBefore(last.lot_id))
    /\ \E r \in DOMAIN reservation :
          /\ reservation[r].is_active
          /\ before.parking_spot[reservation[r].spot_id].lot_id = last.lot_id
          /\ before.parking_spot[reservation[r].spot_id].spot_number > last.max_spots

\* C19: for every lot the availability of the admin dashboard (declared
\* capacity minus Occupied spots) is non-negative and equals the number of
\* Available spots that the user dashboard and the availability API report.
C19_DashboardsAgree ==
    \A l \in DOMAIN parking_lot :
        /\ admin_available_count(parking_lot, parking_spot, l) >= 0
        /\ admin_available_count(parking_lot, parking_spot, l)
              = user_available_spots(parking_spot, l)
        /\ admin_available_count(parking_lot, parking_spot, l)
              = api_available_spots(parking_spot, l)

\* C20: immediately after any resize(lot, new_capacity) every spot of the
\* lot numbered above new_capacity is Occupied.
C20_NoAvailableAboveCapacity ==
    Resized =>
        \A s \in SpotsOfLot(parking_spot, last.lot_id) :
            parking_spot[s].spot_number > last.max_spots => parking_spot[s].status = "O"

====
